---- MODULE Spec2Model ----
(***************************************************************************)
(* The authorization boundary of the Flood API router                      *)
(* (src/server/routes/api/index.ts): route layers, the per-route rate      *)
(* limiters of the content routes, authenticateContentRequest, the         *)
(* mandatory passport session verification and the directory-list handler. *)
(***************************************************************************)
EXTENDS Integers, Sequences, FiniteSets, TLC

VARIABLES now, hits, resetTime, served, reqs

vars == <<now, hits, resetTime, served, reqs>>

----------------------------------------------------------------------------
(* Bounds of the model *)

MaxInFlight == 2
MaxRequests == 2
MaxTicks == 2
MaxPathLen == 3

----------------------------------------------------------------------------
(* Program constants *)

max == 100

windowMs == 5 * 60 * 1000

EXPIRATION_SECONDS == 604800

StartSeconds == EXPIRATION_SECONDS + 1

StartMs == StartSeconds * 1000

SecondMs == 1000

----------------------------------------------------------------------------
(* Values *)

Absent == "<undefined>"

NotAString == "<not-a-string>"

IatAbsent == 0 - 1

IsString(v) == v \notin {Absent, NotAString}

IatMistyped == 0 - 2

IsNumber(n) == n \notin {IatAbsent, IatMistyped}

Slots == 1 .. MaxInFlight

Limiters == {"data", "subtitles"}

Keys == {"ip1", "ip2"}

Hashes == {"abc", "xyz"}

IndicesSet == {"0-1", "2"}

IssuedAts == {1, 2, StartSeconds}

NowSeconds == now \div SecondMs

----------------------------------------------------------------------------
(* Signed tokens (util/authUtil: getAuthToken, verifyToken).  A token is   *)
(* what the client sends: nothing, the empty string, a non-string query    *)
(* value, a string that is no JWT, or a JWT with a payload.                *)

TokenKinds == {"absent", "empty", "nonstring", "malformed", "jwt"}

RawToken(kind) ==
  [kind |-> kind, sig |-> FALSE, username |-> Absent, hash |-> Absent,
   indices |-> Absent, iat |-> IatAbsent, exp |-> 0]

getToken(username, hash, indices, iat) ==
  [kind |-> "jwt", sig |-> TRUE, username |-> username, hash |-> hash,
   indices |-> indices, iat |-> iat, exp |-> iat + EXPIRATION_SECONDS]

getAuthToken(username, iat) == getToken(username, Absent, Absent, iat)

Forged(t) == [t EXCEPT !.sig = FALSE]

Undefined == [ok |-> FALSE, username |-> Absent, hash |-> Absent,
              indices |-> Absent, iat |-> IatAbsent, exp |-> 0]

verifyToken(token, clock) ==
  IF token.kind = "jwt" /\ token.sig /\ clock < token.exp
    THEN [ok |-> TRUE, username |-> token.username, hash |-> token.hash,
          indices |-> token.indices, iat |-> token.iat, exp |-> token.exp]
    ELSE Undefined

contentTokenSchemaSafeParse(payload) ==
  /\ IsString(payload.username)
  /\ IsString(payload.hash)
  /\ IsString(payload.indices)
  /\ IsNumber(payload.iat)

----------------------------------------------------------------------------
(* authenticateContentRequest, lines 31-59: the cookies the request has    *)
(* when next() is called.                                                  *)

IsNonEmptyString(token) == token.kind \in {"malformed", "jwt"}

ScopeMatches_HashOnly(requestedHash, requestedIndices, authorizedHash, authorizedIndices) ==
  requestedHash = authorizedHash

ScopeMatches_IndicesOnly(requestedHash, requestedIndices, authorizedHash, authorizedIndices) ==
  requestedIndices = authorizedIndices

ScopeMatches(requestedHash, requestedIndices, authorizedHash, authorizedIndices) ==
  requestedHash = authorizedHash /\ requestedIndices = authorizedIndices

SynthesizedCookies_IssuedNow(payload) ==
  [jwt |-> getAuthToken(payload.username, NowSeconds), others |-> {}]

SynthesizedCookies_WrongField(payload) ==
  [jwt |-> getAuthToken(payload.hash, payload.iat), others |-> {}]

(* req.cookies = {jwt: getAuthToken(username, iat)}, line 51: a new cookie *)
(* object whose only cookie is the synthesized credential.                 *)
SynthesizedCookies(payload) ==
  [jwt |-> getAuthToken(payload.username, payload.iat), others |-> {}]

GrantIssued_SchemaSkipped(token, requestedHash, requestedIndices, clock) ==
  IF IsNonEmptyString(token)
    THEN LET payload == verifyToken(token, clock)
         IN  IF payload.ok
               THEN IF /\ IsString(payload.username)
                       /\ IsString(payload.hash)
                       /\ IsString(payload.indices)
                      THEN ScopeMatches(requestedHash, requestedIndices,
                                        payload.hash, payload.indices)
                      ELSE FALSE
               ELSE FALSE
    ELSE FALSE

GrantIssued(token, requestedHash, requestedIndices, clock) ==
  IF IsNonEmptyString(token)
    THEN LET payload == verifyToken(token, clock)
         IN  IF payload.ok
               THEN IF contentTokenSchemaSafeParse(payload)
                      THEN IF /\ IsString(payload.username)
                              /\ IsString(payload.hash)
                              /\ IsString(payload.indices)
                             THEN ScopeMatches(requestedHash, requestedIndices,
                                               payload.hash, payload.indices)
                             ELSE FALSE
                      ELSE FALSE
               ELSE FALSE
    ELSE FALSE

CookiesAfterContentAuth_ClearsOnFailure(cookies, token, requestedHash, requestedIndices, clock) ==
  IF GrantIssued(token, requestedHash, requestedIndices, clock)
    THEN SynthesizedCookies(verifyToken(token, clock))
    ELSE [jwt |-> RawToken("absent"), others |-> cookies.others]

CookiesAfterContentAuth_MergesGrant(cookies, token, requestedHash, requestedIndices, clock) ==
  IF GrantIssued(token, requestedHash, requestedIndices, clock)
    THEN [cookies EXCEPT !.jwt = SynthesizedCookies(verifyToken(token, clock)).jwt]
    ELSE cookies

CookiesAfterContentAuth(cookies, token, requestedHash, requestedIndices, clock) ==
  IF GrantIssued(token, requestedHash, requestedIndices, clock)
    THEN SynthesizedCookies(verifyToken(token, clock))
    ELSE cookies

----------------------------------------------------------------------------
(* passport.authenticate('jwt', {session: false}), line 92: the session    *)
(* verification of the credential in the jwt cookie.                       *)

SessionUser(cookies, clock) ==
  LET payload == verifyToken(cookies.jwt, clock)
  IN  IF payload.ok /\ IsString(payload.username) THEN payload.username ELSE Absent

----------------------------------------------------------------------------
(* The router's layers in registration order, lines 27-283.                *)

Routes ==
  {"auth", "data", "subtitles", "torrents", "directory-list", "history", "notifications",
   "clearNotifications", "settings", "settingsProperty", "setSettings", "client",
   "feed-monitor", "activity-stream", "unmatched"}

ContentRoutes == {"data", "subtitles"}

BusinessRoutes ==
  {"history", "notifications", "clearNotifications", "settings", "settingsProperty",
   "setSettings"}

Methods == {"GET", "HEAD", "POST", "DELETE", "PATCH"}

Urls == {"auth", "data", "subtitles", "directory-list", "history", "notifications",
         "settings", "settings-property", "client", "feed-monitor", "torrents",
         "activity-stream"}

(* router.get(...) serves GET and, there being no HEAD route, HEAD too. *)
ServedByGet(method) == method \in {"GET", "HEAD"}

MatchedRoute_AnyMethod(method, url) ==
  CASE url \in {"auth", "client", "feed-monitor", "torrents"} -> url
    [] url \in ContentRoutes -> url
    [] url = "activity-stream" /\ ServedByGet(method) -> "activity-stream"
    [] url = "directory-list" /\ ServedByGet(method) -> "directory-list"
    [] url = "history" /\ ServedByGet(method) -> "history"
    [] url = "notifications" /\ ServedByGet(method) -> "notifications"
    [] url = "notifications" /\ method = "DELETE" -> "clearNotifications"
    [] url = "settings" /\ ServedByGet(method) -> "settings"
    [] url = "settings-property" /\ ServedByGet(method) -> "settingsProperty"
    [] url = "settings" /\ method = "PATCH" -> "setSettings"
    [] OTHER -> "unmatched"

(* The route of the router that a request's method and path select:       *)
(* router.get serves GET and HEAD, router.delete and router.patch one      *)
(* method, router.use every method and every path under its mount. A      *)
(* content path with another method falls through to                       *)
(* router.use('/torrents'), as every other path under /torrents does.      *)
MatchedRoute(method, url) ==
  CASE url \in {"auth", "client", "feed-monitor", "torrents"} -> url
    [] url \in ContentRoutes -> IF ServedByGet(method) THEN url ELSE "torrents"
    [] url = "activity-stream" /\ ServedByGet(method) -> "activity-stream"
    [] url = "directory-list" /\ ServedByGet(method) -> "directory-list"
    [] url = "history" /\ ServedByGet(method) -> "history"
    [] url = "notifications" /\ ServedByGet(method) -> "notifications"
    [] url = "notifications" /\ method = "DELETE" -> "clearNotifications"
    [] url = "settings" /\ ServedByGet(method) -> "settings"
    [] url = "settings-property" /\ ServedByGet(method) -> "settingsProperty"
    [] url = "settings" /\ method = "PATCH" -> "setSettings"
    [] OTHER -> "unmatched"

HandlerLayer(route) ==
  CASE route = "directory-list" -> "directoryList"
    [] route = "torrents" -> "torrentsRoutes"
    [] route = "client" -> "clientRoutes"
    [] route = "feed-monitor" -> "feedMonitorRoutes"
    [] route = "activity-stream" -> "activityStream"
    [] OTHER -> route

Layers_GrantSkipsPassport(route) ==
  CASE route = "auth" -> <<"authRoutes", "passport", "unmatched">>
    [] route \in ContentRoutes ->
         <<"rateLimit", "authenticateContentRequest", "torrentsRoutes">>
    [] OTHER -> <<"passport", HandlerLayer(route)>>

Layers_AuthBeforeLimiter(route) ==
  CASE route = "auth" -> <<"authRoutes", "passport", "unmatched">>
    [] route \in ContentRoutes ->
         <<"authenticateContentRequest", "rateLimit", "passport", "torrentsRoutes">>
    [] OTHER -> <<"passport", HandlerLayer(route)>>

Layers_RouteBeforePassport(route) ==
  CASE route = "auth" -> <<"authRoutes", "passport", "unmatched">>
    [] route \in ContentRoutes ->
         <<"rateLimit", "authenticateContentRequest", "passport", "torrentsRoutes">>
    [] OTHER -> <<HandlerLayer(route)>>

Layers(route) ==
  CASE route = "auth" -> <<"authRoutes", "passport", "unmatched">>
    [] route \in ContentRoutes ->
         <<"rateLimit", "authenticateContentRequest", "passport", "torrentsRoutes">>
    [] OTHER -> <<"passport", HandlerLayer(route)>>

LayerAfter(route, layer) ==
  LET ls == Layers(route)
      i == CHOOSE j \in 1 .. Len(ls) : ls[j] = layer
  IN  IF i < Len(ls) THEN ls[i + 1] ELSE "done"

----------------------------------------------------------------------------
(* Paths (util/fileUtil: sanitizePath, isAllowedPath) and the filesystem   *)
(* the directory-list handler reads.  A path string is the list of its     *)
(* segments and, for each segment, the separator written in front of it:   *)
(* "/" or "\\", or none in front of the first segment of a relative path.   *)

Segments == {"data", "downloads", "etc", "..", "."}

cwd == <<"data", "downloads">>

allowedPaths == {<<"data", "downloads">>}

(* path.sep, the one separator of a resolved path, and the separators a   *)
(* client may write.                                                       *)
sep == "/"

Separators == {"/", "\\"}

NoSeparator == ""

NoPath(kind) == [kind |-> kind, abs |-> FALSE, segs |-> <<>>, seps |-> <<>>]

(* The string that writes the segments with the given separators. *)
WrittenPath(abs, segs, seps) ==
  [kind |-> "string", abs |-> abs, segs |-> segs,
   seps |-> [i \in 1 .. Len(segs) |-> IF i = 1 /\ ~abs THEN NoSeparator ELSE seps[i]]]

(* The string that writes the segments with path.sep throughout. *)
StringPath(abs, segs) == WrittenPath(abs, segs, [i \in 1 .. Len(segs) |-> sep])

RECURSIVE Resolve_KeepsDotDotAtRoot(_, _)
Resolve_KeepsDotDotAtRoot(base, segs) ==
  IF segs = <<>> THEN base
  ELSE LET seg == Head(segs)
           stepped == CASE seg = "." -> base
                        [] seg = ".." -> IF base = <<>> THEN <<"..">>
                                         ELSE SubSeq(base, 1, Len(base) - 1)
                        [] OTHER -> Append(base, seg)
       IN  Resolve_KeepsDotDotAtRoot(stepped, Tail(segs))

RECURSIVE Resolve(_, _)
Resolve(base, segs) ==
  IF segs = <<>> THEN base
  ELSE LET seg == Head(segs)
           stepped == CASE seg = "." -> base
                        [] seg = ".." -> IF base = <<>> THEN base
                                         ELSE SubSeq(base, 1, Len(base) - 1)
                        [] OTHER -> Append(base, seg)
       IN  Resolve(stepped, Tail(segs))

(* The working directory is an absolute path. *)
cwdPath == StringPath(TRUE, cwd)

(* Either separator ends a segment of the input; the segments are resolved *)
(* from the root for an absolute input and from the working directory for  *)
(* a relative one, and the result is written with path.sep.                *)
sanitizePath_KeepsSeparators(inputPath) ==
  LET base == IF inputPath.abs THEN StringPath(TRUE, <<>>) ELSE cwdPath
      segs == Resolve(base.segs, inputPath.segs)
  IN  WrittenPath(base.abs, segs,
                  [i \in 1 .. Len(segs) |->
                     IF i <= Len(inputPath.seps) /\ inputPath.seps[i] # NoSeparator
                       THEN inputPath.seps[i] ELSE sep])

sanitizePath(inputPath) ==
  LET base == IF inputPath.abs THEN StringPath(TRUE, <<>>) ELSE cwdPath
  IN  StringPath(base.abs, Resolve(base.segs, inputPath.segs))

IsOnOrUnder_FirstSegment(resolvedPath, root) ==
  /\ Len(resolvedPath) >= 1
  /\ Len(root) >= 1
  /\ resolvedPath[1] = root[1]

IsOnOrUnder(resolvedPath, root) ==
  /\ Len(root) <= Len(resolvedPath)
  /\ SubSeq(resolvedPath, 1, Len(root)) = root

isAllowedPath(resolvedPath) ==
  /\ resolvedPath.abs
  /\ \E root \in allowedPaths : IsOnOrUnder(resolvedPath.segs, root)

fileNotFoundError == [code |-> "FileNotFoundError", message |-> "No such file or directory"]

accessDeniedError == [code |-> "AccessDeniedError", message |-> "Permission denied"]

FsIsDirectory(p) ==
  p \in {<<>>, <<"data">>, <<"etc">>, <<"data", "downloads">>,
         <<"data", "downloads", "data">>}

FsIsFile(p) == p = <<"data", "downloads", "a.txt">>

(* fs.existsSync: FALSE for "dangling", a symbolic link to nothing. *)
FsExists(p) == FsIsDirectory(p) \/ FsIsFile(p)

FsEntries(p) ==
  CASE p = <<>> -> <<"data", "etc">>
    [] p = <<"data">> -> <<"downloads">>
    [] p = <<"data", "downloads">> -> <<"a.txt", "dangling", "data">>
    [] OTHER -> <<>>

(* Lines 139-146: an entry that exists is a directory or else a file; one *)
(* that does not exist is in neither list.                                 *)
SelectItems(items, resolvedPath, wantDirectory) ==
  SelectSeq(items, LAMBDA item :
                     /\ FsExists(Append(resolvedPath, item))
                     /\ FsIsDirectory(Append(resolvedPath, item)) = wantDirectory)

(* Lines 140-141: existsSync of every entry, statSync of those that exist. *)
RECURSIVE ItemFsOps(_, _)
ItemFsOps(items, resolvedPath) ==
  IF items = <<>> THEN <<>>
  ELSE LET joinedPath == Append(resolvedPath, Head(items))
       IN  <<[op |-> "exists", path |-> joinedPath]>>
             \o (IF FsExists(joinedPath) THEN <<[op |-> "stat", path |-> joinedPath]>>
                                          ELSE <<>>)
             \o ItemFsOps(Tail(items), resolvedPath)

ListingFsOps(resolvedPath) ==
  <<[op |-> "readdir", path |-> resolvedPath]>> \o ItemFsOps(FsEntries(resolvedPath), resolvedPath)

(* Line 149: the pattern finds a separator followed by a character that is *)
(* not white space, so some name of the path begins with such a character. *)
BlankLed == {" a"}

hasParent(resolvedPath) ==
  \E i \in 1 .. Len(resolvedPath) : resolvedPath[i] \notin BlankLed

NoListing == [directories |-> <<>>, files |-> <<>>, hasParent |-> FALSE, path |-> <<>>]

AccessDenied_NeverChecked(resolvedPath) == FALSE

AccessDenied(resolvedPath) == ~isAllowedPath(resolvedPath)

PathQueryMissing_TypeofOnly(inputPath) == inputPath.kind \in {"absent", "nonstring"}

PathQueryMissing(inputPath) == inputPath.kind # "string"

(* router.get('/directory-list'), lines 119-159: the response and the      *)
(* filesystem calls made for one request.                                  *)
DirectoryListResult(inputPath) ==
  IF PathQueryMissing(inputPath)
    THEN [status |-> 404, body |-> fileNotFoundError.code, listing |-> NoListing,
          sanitized |-> FALSE, resolvedPath |-> NoPath("absent"), resolved |-> <<>>,
          fsOps |-> <<>>]
    ELSE LET resolvedPath == sanitizePath(inputPath)
             names == resolvedPath.segs
         IN  IF AccessDenied(resolvedPath)
               THEN [status |-> 403, body |-> accessDeniedError.code, listing |-> NoListing,
                     sanitized |-> TRUE, resolvedPath |-> resolvedPath, resolved |-> names,
                     fsOps |-> <<>>]
               ELSE IF ~FsIsDirectory(names)
                 THEN [status |-> 500,
                       body |-> IF FsExists(names) THEN "ENOTDIR" ELSE "ENOENT",
                       listing |-> NoListing,
                       sanitized |-> TRUE, resolvedPath |-> resolvedPath, resolved |-> names,
                       fsOps |-> <<[op |-> "readdir", path |-> names]>>]
                 ELSE [status |-> 200, body |-> "listing",
                       listing |-> [directories |-> SelectItems(FsEntries(names), names, TRUE),
                                    files |-> SelectItems(FsEntries(names), names, FALSE),
                                    hasParent |-> hasParent(names),
                                    path |-> names],
                       sanitized |-> TRUE, resolvedPath |-> resolvedPath, resolved |-> names,
                       fsOps |-> ListingFsOps(names)]

----------------------------------------------------------------------------
(* Requests *)

(* The cookies of a request: the jwt cookie and the names of the others. *)
OtherCookies == {"lang"}

NoCookies == [jwt |-> RawToken("absent"), others |-> {}]

NoInput ==
  [method |-> "GET", route |-> "auth", key |-> "ip1", hash |-> Absent, indices |-> Absent,
   token |-> RawToken("absent"), cookies |-> NoCookies, path |-> NoPath("absent")]

NewRequest(r, pc) ==
  [method |-> r.method, url |-> r.route, route |-> MatchedRoute(r.method, r.route), key |-> r.key, hash |-> r.hash, indices |-> r.indices,
   token |-> r.token, received |-> r.cookies, path |-> r.path,
   pc |-> pc, cookies |-> r.cookies, status |-> 0, body |-> "", user |-> Absent,
   listing |-> NoListing, hit |-> 0, windowHits |-> 0, countedAt |-> 0, windowEnd |-> 0,
   tokenVerified |-> FALSE, granted |-> FALSE, evalAt |-> 0 - 1, nextCalls |-> 0,
   verifiedAt |-> 0 - 1, handled |-> FALSE, sanitized |-> FALSE,
   resolvedPath |-> NoPath("absent"), resolved |-> <<>>,
   fsOps |-> <<>>, json |-> FALSE, keys |-> {}, services |-> FALSE, outcome |-> "none"]

Idle == NewRequest(NoInput, "idle")

Respond(q, status, body) == [q EXCEPT !.pc = "done", !.status = status, !.body = body]

Handle(q, status, body) == [Respond(q, status, body) EXCEPT !.handled = TRUE]

Json(q, keys) == [q EXCEPT !.json = TRUE, !.keys = keys]

(* What clients send *)

JwtTokens ==
  {IF sig THEN getToken(u, h, i, iat) ELSE Forged(getToken(u, h, i, iat)) :
     sig \in BOOLEAN, u \in {"bob"}, h \in Hashes, i \in IndicesSet,
     iat \in IssuedAts}

(* Signed, unexpired tokens whose payload lacks or mistypes one field. *)
Defective(t) ==
  {[t EXCEPT !.username = v] : v \in {Absent, NotAString}} \cup
  {[t EXCEPT !.hash = v] : v \in {Absent, NotAString}} \cup
  {[t EXCEPT !.indices = v] : v \in {Absent, NotAString}} \cup
  {[t EXCEPT !.iat = n] : n \in {IatAbsent, IatMistyped}}

DefectiveTokens == Defective(getToken("bob", "abc", "0-1", StartSeconds))

QueryTokens == {RawToken(k) : k \in TokenKinds \ {"jwt"}} \cup JwtTokens \cup DefectiveTokens

SessionCookies ==
  {NoCookies} \cup
  {[jwt |-> IF sig THEN getAuthToken("alice", iat) ELSE Forged(getAuthToken("alice", iat)),
    others |-> {}] :
     sig \in BOOLEAN, iat \in IssuedAts} \cup
  {[jwt |-> RawToken("absent"), others |-> OtherCookies],
   [jwt |-> getAuthToken("alice", StartSeconds), others |-> OtherCookies]}

SegmentLists == UNION {[1 .. n -> Segments] : n \in 0 .. MaxPathLen}

(* Paths to a regular file and to names that begin with white space, and  *)
(* paths written with both separators.                                     *)
MixedSeparators == <<"\\", "/", "\\">>

NamedPaths ==
  {StringPath(TRUE, <<"data", "downloads", "a.txt">>), StringPath(FALSE, <<"a.txt">>),
   StringPath(TRUE, <<" a">>), StringPath(FALSE, <<" a">>),
   WrittenPath(TRUE, <<"data", "downloads", "..">>, MixedSeparators),
   WrittenPath(FALSE, <<"..", "downloads", "data">>, MixedSeparators)}

(* Every list of segments, absolute and relative, written with either     *)
(* separator throughout.                                                   *)
PathQueries ==
  {NoPath(k) : k \in {"absent", "empty", "nonstring"}} \cup NamedPaths \cup
  ({WrittenPath(abs, segs, [i \in 1 .. Len(segs) |-> sp]) :
      abs \in BOOLEAN, segs \in SegmentLists, sp \in Separators} \ {StringPath(FALSE, <<>>)})

ContentRequests(keys, tokens, cookieSets) ==
  [method : {"GET"}, route : ContentRoutes, key : keys, hash : Hashes, indices : IndicesSet,
   token : tokens, cookies : cookieSets, path : {NoPath("absent")}]

OtherRequests(routes, keys, cookieSets, paths) ==
  [method : {"GET"}, route : routes, key : keys, hash : {Absent}, indices : {Absent},
   token : {RawToken("absent")}, cookies : cookieSets, path : paths]

(* Requests that carry a content token to any method and path. *)
TokenRequests ==
  [method : Methods, route : Urls, key : {"ip1"}, hash : {"abc"}, indices : {"0-1"},
   token : {RawToken("absent"), getToken("bob", "abc", "0-1", StartSeconds)},
   cookies : {NoCookies, [jwt |-> getAuthToken("alice", StartSeconds), others |-> {}],
              [jwt |-> getAuthToken("alice", 1), others |-> {}]},
   path : {NoPath("absent")}]

(* The cookies sent along with a content token: none, a session that is  *)
(* fresh, about to expire, expired or forged, and one with another cookie. *)
ContentCookies ==
  {NoCookies, [jwt |-> getAuthToken("alice", StartSeconds), others |-> OtherCookies]} \cup
  {[jwt |-> getAuthToken("alice", iat), others |-> {}] : iat \in IssuedAts} \cup
  {[jwt |-> Forged(getAuthToken("alice", StartSeconds)), others |-> {}]}

Requests ==
  ContentRequests({"ip1"}, QueryTokens, ContentCookies)
    \cup OtherRequests({"auth"}, {"ip1"}, SessionCookies, {NoPath("absent")})
    \cup OtherRequests({"directory-list"}, {"ip1"}, SessionCookies, {NoPath("absent")})
    \cup OtherRequests({"directory-list"}, {"ip1"},
                       {[jwt |-> getAuthToken("alice", StartSeconds), others |-> {}]},
                       PathQueries)
    \cup TokenRequests

----------------------------------------------------------------------------
(* The rate limiters, lines 69-72 and 84-87: one counter per limiter       *)
(* instance and client key.                                                *)

LimiterOf(route) == route

ClientKey_Shared(q) == "ip1"

ClientKey(q) == q.key

WindowElapsed(l, k) == now >= resetTime[l][k]

CurrentHits_LostUpdate(l, k) == IF WindowElapsed(l, k) \/ hits[l][k] = 0 THEN 1 ELSE hits[l][k]

CurrentHits(l, k) == IF WindowElapsed(l, k) THEN 1 ELSE hits[l][k] + 1

OverLimit_AtBudget(current) == current >= max

OverLimit(current) == current > max

(* The content-route requests of key k counted in the windows now open,    *)
(* over both content routes, once the request being counted is added.      *)
ContentHitsInWindow(l, k) ==
  LET other == CHOOSE o \in Limiters : o # l
  IN  CurrentHits(l, k) + (IF WindowElapsed(other, k) THEN 0 ELSE hits[other][k])

----------------------------------------------------------------------------
(* Actions *)

PriorTraffic(prior) ==
  /\ hits = [l \in Limiters |-> [k \in Keys |-> prior[l][k]]]
  /\ resetTime = [l \in Limiters |-> [k \in Keys |->
                    IF prior[l][k] = 0 THEN 0 ELSE StartMs + windowMs]]

(* The server has been running: each counter is fresh or has reached the   *)
(* budget in a window that began at the start of the run.                  *)
Init ==
  /\ now = StartMs
  /\ \E h \in {0, max} : PriorTraffic([l \in Limiters |-> [k \in Keys |-> h]])
  /\ served = 0
  /\ reqs = [s \in Slots |-> Idle]

(* A request arrives, takes the first free slot (the slots are only names *)
(* of the requests in flight) and is routed to the first layer that        *)
(* matches it.                                                             *)
Receive(s, inputs) ==
  /\ reqs[s].pc = "idle"
  /\ \A t \in 1 .. (s - 1) : reqs[t].pc # "idle"
  /\ served < MaxRequests
  /\ \E r \in inputs :
       reqs' = [reqs EXCEPT ![s] = NewRequest(r, Layers(MatchedRoute(r.method, r.route))[1])]
  /\ served' = served + 1
  /\ UNCHANGED <<now, hits, resetTime>>

(* rateLimit({windowMs, max}) of a content route, lines 69-72 and 84-87.   *)
(* The middleware works in two jobs of the event loop.  The first is the   *)
(* store's increment: one synchronous read-modify-write of the counter of  *)
(* the request's key, which hands the request its count and the end of the *)
(* window.  Other requests run before the second job.                      *)
RateLimit(s) ==
  LET q == reqs[s]
      l == LimiterOf(q.route)
      k == ClientKey(q)
      current == CurrentHits(l, k)
      windowEnd == IF WindowElapsed(l, k) THEN now + windowMs ELSE resetTime[l][k]
  IN  /\ q.pc = "rateLimit"
      /\ hits' = [hits EXCEPT ![l][k] = current]
      /\ resetTime' = [resetTime EXCEPT ![l][k] = windowEnd]
      /\ reqs' = [reqs EXCEPT ![s] =
                    [q EXCEPT !.pc = "rateLimitDecision",
                              !.hit = current,
                              !.windowHits = ContentHitsInWindow(l, k),
                              !.countedAt = now,
                              !.windowEnd = windowEnd]]
      /\ UNCHANGED <<now, served>>

(* The second job of the middleware: the count the request was given is    *)
(* compared with max, and the request is answered 429 or passed on.  The   *)
(* store is not read again.                                                *)
RateLimitDecision(s) ==
  LET q == reqs[s]
  IN  /\ q.pc = "rateLimitDecision"
      /\ reqs' = [reqs EXCEPT ![s] =
                    IF OverLimit(q.hit)
                      THEN Respond(q, 429, "Too many requests")
                      ELSE [q EXCEPT !.pc = LayerAfter(q.route, "rateLimit")]]
      /\ UNCHANGED <<now, hits, resetTime, served>>

(* authenticateContentRequest, lines 31-59 *)
AuthenticateContentRequest(s) ==
  LET q == reqs[s]
  IN  /\ q.pc = "authenticateContentRequest"
      /\ reqs' = [reqs EXCEPT ![s] =
                    IF IsNonEmptyString(q.token)
                      THEN [q EXCEPT !.pc = "verifyToken",
                                     !.tokenVerified = TRUE,
                                     !.evalAt = NowSeconds]
                      ELSE [q EXCEPT
                              !.pc = LayerAfter(q.route, "authenticateContentRequest"),
                              !.evalAt = NowSeconds,
                              !.nextCalls = @ + 1]]
      /\ UNCHANGED <<now, hits, resetTime, served>>

(* Lines 35-58: the promise of verifyToken, called at evalAt, settles in a *)
(* later job of the event loop; the handler resumes, replaces the cookies  *)
(* on a grant and calls next().                                            *)
VerifyTokenSettles(s) ==
  LET q == reqs[s]
  IN  /\ q.pc = "verifyToken"
      /\ reqs' = [reqs EXCEPT ![s] =
                    [q EXCEPT
                       !.pc = LayerAfter(q.route, "authenticateContentRequest"),
                       !.cookies = CookiesAfterContentAuth(q.cookies, q.token, q.hash,
                                                           q.indices, q.evalAt),
                       !.granted = GrantIssued(q.token, q.hash, q.indices, q.evalAt),
                       !.nextCalls = @ + 1]]
      /\ UNCHANGED <<now, hits, resetTime, served>>

(* appendUserServices attaches the services of the verified user to the    *)
(* request; the handlers read them through req.services?., so a request    *)
(* may arrive at its handler without them.                                 *)
ServicesAttached(route) == IF route \in BusinessRoutes THEN BOOLEAN ELSE {TRUE}

PassportAuthenticate(s) ==
  LET q == reqs[s]
      user == SessionUser(q.cookies, NowSeconds)
  IN  /\ q.pc = "passport"
      /\ \E attached \in ServicesAttached(q.route) :
           reqs' = [reqs EXCEPT ![s] =
                      IF user = Absent
                        THEN [Respond(q, 401, "Unauthorized") EXCEPT !.verifiedAt = NowSeconds]
                        ELSE [q EXCEPT !.pc = LayerAfter(q.route, "passport"),
                                       !.user = user, !.verifiedAt = NowSeconds,
                                       !.services = attached]]
      /\ UNCHANGED <<now, hits, resetTime, served>>

(* router.use('/auth', authRoutes), line 27: the sub-router answers the    *)
(* paths and methods it has a route for, with a status of its own; any     *)
(* other request under /auth it passes on, to line 92 and, no later route  *)
(* matching, out of this router.                                           *)
AuthStatuses == {200, 401}

AuthRoutes(s) ==
  /\ reqs[s].pc = "authRoutes"
  /\ \/ \E status \in AuthStatuses : reqs' = [reqs EXCEPT ![s] = Handle(@, status, "auth")]
     \/ reqs' = [reqs EXCEPT ![s].pc = LayerAfter(reqs[s].route, "authRoutes")]
  /\ UNCHANGED <<now, hits, resetTime, served>>

(* router.use('/torrents', torrentsRoutes), line 98 *)
TorrentsRoutes(s) ==
  /\ reqs[s].pc = "torrentsRoutes"
  /\ reqs' = [reqs EXCEPT ![s] = Handle(@, 200, "content")]
  /\ UNCHANGED <<now, hits, resetTime, served>>

(* The keys of the JSON bodies of lines 125, 131 and 151-157; an exception *)
(* of the filesystem calls leaves the handler without a JSON body.         *)
DirectoryListKeys(status) ==
  CASE status = 200 -> {"directories", "files", "hasParent", "path", "separator"}
    [] status \in {403, 404} -> DOMAIN fileNotFoundError
    [] OTHER -> {}

(* router.use('/client', clientRoutes), line 94 *)
ClientRoutes(s) ==
  /\ reqs[s].pc = "clientRoutes"
  /\ reqs' = [reqs EXCEPT ![s] = Handle(@, 200, "client")]
  /\ UNCHANGED <<now, hits, resetTime, served>>

(* router.use('/feed-monitor', feedMonitorRoutes), line 96 *)
FeedMonitorRoutes(s) ==
  /\ reqs[s].pc = "feedMonitorRoutes"
  /\ reqs' = [reqs EXCEPT ![s] = Handle(@, 200, "feed-monitor")]
  /\ UNCHANGED <<now, hits, resetTime, served>>

(* router.get('/activity-stream', eventStream, clientActivityStream), line 108 *)
ActivityStream(s) ==
  /\ reqs[s].pc = "activityStream"
  /\ reqs' = [reqs EXCEPT ![s] = Handle(@, 200, "event-stream")]
  /\ UNCHANGED <<now, hits, resetTime, served>>

(* router.get('/directory-list'), lines 119-159 *)
DirectoryList(s) ==
  LET q == reqs[s]
      result == DirectoryListResult(q.path)
  IN  /\ q.pc = "directoryList"
      /\ reqs' = [reqs EXCEPT ![s] =
                    [Handle(q, result.status, result.body) EXCEPT
                       !.json = result.status # 500,
                       !.keys = DirectoryListKeys(result.status),
                       !.listing = result.listing,
                       !.sanitized = result.sanitized,
                       !.resolvedPath = result.resolvedPath,
                       !.resolved = result.resolved,
                       !.fsOps = result.fsOps]]
      /\ UNCHANGED <<now, hits, resetTime, served>>

(* What a collaborator's promise settles with: a value, or a rejection    *)
(* that is an Error (its message is not enumerable), a plain object with   *)
(* or without a code and a message, or undefined.                          *)
Rejection(kind, code, message) == [kind |-> kind, code |-> code, message |-> message]

NoRejection == Rejection("none", FALSE, FALSE)

Rejections ==
  {Rejection("Error", c, TRUE) : c \in BOOLEAN} \cup
  {Rejection("object", c, m) : c \in BOOLEAN, m \in BOOLEAN} \cup
  {Rejection("undefined", FALSE, FALSE)}

(* What getResponseFn does with an absent error is not in the source: the  *)
(* routes that answer through it are settled with a value or an error.     *)
Settlements(route) ==
  {[kind |-> "value", err |-> NoRejection]} \cup
  {[kind |-> "error", err |-> e] :
     e \in IF route \in {"history", "notifications", "clearNotifications"}
             THEN Rejections
             ELSE {r \in Rejections : r.kind # "undefined"}}

(* res.json(err), line 176: the fields JSON.stringify keeps. *)
StringifiedKeys(err) ==
  (IF err.kind \in {"Error", "object"} /\ err.code THEN {"code"} ELSE {}) \cup
  (IF err.kind = "object" /\ err.message THEN {"message"} ELSE {})

(* res.json({message: err.message}), lines 196 and 215: a message that is *)
(* undefined is left out of the body.                                      *)
MessageKeys(err) == IF err.message THEN {"message"} ELSE {}

(* err.message of undefined throws inside the rejection callback: nothing *)
(* is sent.                                                                *)
Threw(q) == [q EXCEPT !.pc = "threw"]

(* getResponseFn(res): callback(data) answers 200 with the data,           *)
(* callback(null, err) answers 500 with the error as {code, message}.      *)
getResponseFn(q, settled) ==
  IF settled.kind = "value"
    THEN Json(Respond(q, 200, "data"), {"data"})
    ELSE Json(Respond(q, 500, "error"), {"code", "message"})

(* The callbacks of the business routes, lines 170-283. *)
BusinessResponse(q, settled) ==
  CASE q.route = "history" ->
         IF settled.kind = "value"
           THEN Json(Respond(q, 200, "snapshot"), {"snapshot"})
           ELSE Json(Respond(q, 500, "error"), StringifiedKeys(settled.err))
    [] q.route = "notifications" ->
         IF settled.kind = "value"
           THEN Json(Respond(q, 200, "notifications"), {"notifications", "count"})
           ELSE IF settled.err.kind = "undefined"
             THEN Threw(q)
             ELSE Json(Respond(q, 500, "error"), MessageKeys(settled.err))
    [] q.route = "clearNotifications" ->
         IF settled.kind = "value"
           THEN Respond(q, 200, "")
           ELSE IF settled.err.kind = "undefined"
             THEN Threw(q)
             ELSE Json(Respond(q, 500, "error"), MessageKeys(settled.err))
    [] OTHER -> getResponseFn(q, settled)

(* A business handler runs: req.services?.<service>.<call>(...) starts the *)
(* collaborator's call when the services are attached and is skipped       *)
(* otherwise; either way the handler returns.                              *)
BusinessHandler(s) ==
  LET q == reqs[s]
  IN  /\ q.pc \in BusinessRoutes
      /\ reqs' = [reqs EXCEPT ![s] =
                    [q EXCEPT !.handled = TRUE,
                              !.pc = IF q.services THEN "awaiting" ELSE "returned"]]
      /\ UNCHANGED <<now, hits, resetTime, served>>

(* The collaborator's promise settles and the matching callback answers. *)
CollaboratorSettles(s) ==
  LET q == reqs[s]
  IN  /\ q.pc = "awaiting"
      /\ \E settled \in Settlements(q.route) :
           reqs' = [reqs EXCEPT ![s] =
                      [BusinessResponse(q, settled) EXCEPT !.outcome = settled.kind,
                                                           !.handled = TRUE]]
      /\ UNCHANGED <<now, hits, resetTime, served>>

(* No route of the router matches the method and path: the request leaves *)
(* the router unanswered by it and the application answers 404.            *)
Unmatched(s) ==
  /\ reqs[s].pc = "unmatched"
  /\ reqs' = [reqs EXCEPT ![s] = Respond(@, 404, "Not Found")]
  /\ UNCHANGED <<now, hits, resetTime, served>>

(* The response has been sent and the request is released. *)
Finish(s) ==
  /\ reqs[s].pc = "done"
  /\ reqs' = [reqs EXCEPT ![s] = Idle]
  /\ UNCHANGED <<now, hits, resetTime, served>>

(* The wall clock advances between any two steps. *)
TicksUsed ==
  LET elapsed == now - StartMs
  IN  (elapsed \div windowMs) + ((elapsed % windowMs) \div SecondMs)

Tick(d) ==
  /\ TicksUsed < MaxTicks
  /\ now' = now + d
  /\ UNCHANGED <<hits, resetTime, served, reqs>>

Step(s) ==
  \/ RateLimit(s)
  \/ RateLimitDecision(s)
  \/ AuthenticateContentRequest(s)
  \/ VerifyTokenSettles(s)
  \/ PassportAuthenticate(s)
  \/ AuthRoutes(s)
  \/ ClientRoutes(s)
  \/ FeedMonitorRoutes(s)
  \/ TorrentsRoutes(s)
  \/ ActivityStream(s)
  \/ DirectoryList(s)
  \/ BusinessHandler(s)
  \/ CollaboratorSettles(s)
  \/ Unmatched(s)

(* One request, of any kind, through the layers of the router. *)
Next ==
  \/ served = 0 /\ Receive(1, Requests)
  \/ Step(1)
  \/ Tick(SecondMs)
  \/ Tick(windowMs)

Spec == Init /\ [][Next]_vars

(* Requests of several clients, in flight together, against counters that *)
(* are fresh, one short of the budget or at the budget.                    *)
RateRequests ==
  [method : {"GET"}, route : ContentRoutes, key : Keys, hash : {"abc"}, indices : {"0-1"},
   token : {getToken("bob", "abc", "0-1", StartSeconds)},
   cookies : {NoCookies}, path : {NoPath("absent")}]

InitRate ==
  /\ now = StartMs
  /\ \E prior \in {p \in [Limiters -> {0, max - 1, max}] : p["data"] + p["subtitles"] <= max} :
       PriorTraffic([l \in Limiters |-> [k \in Keys |-> IF k = "ip1" THEN prior[l] ELSE 0]])
  /\ served = 0
  /\ reqs = [s \in Slots |-> Idle]

NextRate ==
  \/ \E s \in Slots : Receive(s, RateRequests)
  \/ \E s \in Slots : RateLimit(s)
  \/ \E s \in Slots : RateLimitDecision(s)
  \/ \E s \in Slots : AuthenticateContentRequest(s)
  \/ \E s \in Slots : VerifyTokenSettles(s)
  \/ \E s \in Slots : PassportAuthenticate(s)
  \/ \E s \in Slots : TorrentsRoutes(s)
  \/ \E s \in Slots : Finish(s)
  \/ Tick(windowMs)

SpecRate == InitRate /\ [][NextRate]_vars

----------------------------------------------------------------------------
(* Properties *)

HandlerLayers ==
  {"authRoutes", "clientRoutes", "feedMonitorRoutes", "torrentsRoutes", "activityStream",
   "directoryList", "awaiting", "returned", "threw"} \cup BusinessRoutes

ReachedBusinessLogic(q) == q.pc \in HandlerLayers \/ q.handled

CredentialValidAt(token, clock) == token.kind = "jwt" /\ token.sig /\ clock < token.exp

(* authenticateContentRequest has run to its call of next(). *)
TokenEvaluated(q) == q.route \in ContentRoutes /\ q.evalAt >= 0 /\ q.pc # "verifyToken"

SessionChecked(q) == q.verifiedAt >= 0

(* The limiter has counted the request. *)
Counted(q) == q.hit > 0

(* The limiter has counted the request and decided on it. *)
LimiterRan(q) == Counted(q) /\ q.pc # "rateLimitDecision"

FourConditions(q) ==
  /\ q.token.kind = "jwt"
  /\ q.token.sig
  /\ q.evalAt < q.token.exp
  /\ q.token.hash = q.hash
  /\ q.token.indices = q.indices

CredentialInstalled(q) ==
  q.cookies = [jwt |-> [kind |-> "jwt", sig |-> TRUE, username |-> q.token.username,
                        hash |-> Absent, indices |-> Absent, iat |-> q.token.iat,
                        exp |-> q.token.iat + EXPIRATION_SECONDS],
               others |-> {}]

(* C1: a request to a non-public route reaches business logic only after   *)
(* the session verification step has run and succeeded on the credential   *)
(* the request carries at that step; a capability grant alone never lets   *)
(* a request through.                                                      *)
C1_VerifiedBeforeBusinessLogic ==
  \A s \in Slots :
    LET q == reqs[s]
    IN  (q.route # "auth" /\ ReachedBusinessLogic(q)) =>
          /\ SessionChecked(q)
          /\ q.user # Absent
          /\ CredentialValidAt(q.cookies.jwt, q.verifiedAt)
          /\ q.cookies.jwt.username = q.user

C1_Witness ==
  \E s \in Slots :
    /\ reqs[s].route \in ContentRoutes
    /\ reqs[s].granted
    /\ reqs[s].received = NoCookies
    /\ reqs[s].handled
    /\ reqs[s].status = 200

(* C2 as stated: on a content route a query token yields a grant if and    *)
(* only if its signature is valid, it is not expired, payload.hash equals  *)
(* the route's hash and payload.indices equals the route's indices.        *)
C2_GrantIffFourConditions ==
  \A s \in Slots :
    LET q == reqs[s]
    IN  (TokenEvaluated(q) /\ q.token.kind # "absent") =>
          (q.granted <=> FourConditions(q))

(* C2, amended: on a content route a query token yields a grant (the       *)
(* synthesized credential is installed) if and only if its signature is    *)
(* valid, it is not expired, payload.hash and payload.indices equal the    *)
(* route's parameters, and the verified payload passes the content-token   *)
(* schema (string username, hash and indices, numeric issuedAt); if any    *)
(* one of these is false there is no grant and the cookies stay as sent.   *)
C2_GrantIffFourConditionsAndSchema ==
  \A s \in Slots :
    LET q == reqs[s]
    IN  (TokenEvaluated(q) /\ q.token.kind # "absent") =>
          /\ q.granted <=> (/\ FourConditions(q)
                            /\ IsString(q.token.username)
                            /\ IsNumber(q.token.iat))
          /\ q.granted <=> CredentialInstalled(q)
          /\ ~q.granted => q.cookies = q.received

C2_Witness ==
  \E s \in Slots :
    /\ TokenEvaluated(reqs[s])
    /\ reqs[s].granted
    /\ CredentialInstalled(reqs[s])
    /\ reqs[s].token.username = "bob"

(* C3: once evaluated, a token minted for hash H1 yields no grant on a     *)
(* request whose route hash is H2 # H1, whatever its signature and         *)
(* username; such a request that carries no session cookie never reaches   *)
(* the handler and ends with 401.                                          *)
C3_OtherHashNoGrant ==
  \A s \in Slots :
    LET q == reqs[s]
    IN  (TokenEvaluated(q) /\ q.token.kind = "jwt" /\ q.token.hash # q.hash) =>
          /\ ~q.granted
          /\ q.cookies = q.received
          /\ q.received = NoCookies =>
               /\ ~ReachedBusinessLogic(q)
               /\ q.pc = "done" => q.status = 401

C3_Witness ==
  \E s \in Slots :
    LET q == reqs[s]
    IN  /\ TokenEvaluated(q)
        /\ q.token.kind = "jwt" /\ q.token.sig /\ q.evalAt < q.token.exp
        /\ q.token.username = "bob"
        /\ q.token.hash # q.hash /\ q.token.indices = q.indices
        /\ q.received = NoCookies
        /\ q.pc = "done" /\ q.status = 401

(* C4 as stated: in one window the content-route requests of one client    *)
(* key, data and subtitles counted together, are answered 429 from the     *)
(* 101st on and proceed to authentication up to the 100th.                 *)
C4_BudgetSharedByContentRoutes ==
  \A s \in Slots :
    LET q == reqs[s]
    IN  LimiterRan(q) => (q.status = 429 <=> q.windowHits > max)

(* C4, amended: in one window the requests of one client key to the same   *)
(* content route proceed to authentication up to the 100th and are         *)
(* answered 429 from the 101st on, whatever their token; the data and the  *)
(* subtitles route each have a budget of their own.                        *)
C4_BudgetPerContentRoute ==
  \A s \in Slots :
    LET q == reqs[s]
    IN  LimiterRan(q) =>
          /\ q.status = 429 <=> q.hit > max
          /\ q.hit <= max => (q.pc # "rateLimit" /\ (q.pc = "done" => SessionChecked(q)))
          /\ q.hit <= q.windowHits

C4_Witness ==
  \E s \in Slots :
    /\ reqs[s].hit = max + 1
    /\ reqs[s].status = 429
    /\ reqs[s].token.kind = "jwt" /\ reqs[s].token.sig

(* C5: on a content route the rate limiter runs before any credential is   *)
(* looked at: a request answered 429 has had no token verified, no         *)
(* credential synthesized and no session verification, and a token is      *)
(* only evaluated on a request the limiter has let through.                *)
C5_LimiterBeforeCredentials ==
  \A s \in Slots :
    LET q == reqs[s]
    IN  /\ q.status = 429 =>
             /\ ~q.tokenVerified
             /\ ~q.granted
             /\ q.evalAt < 0
             /\ ~SessionChecked(q)
             /\ q.cookies = q.received
        /\ (q.route \in ContentRoutes /\ (q.evalAt >= 0 \/ SessionChecked(q))) =>
             (LimiterRan(q) /\ q.hit <= max)

C5_Witness ==
  \E s \in Slots :
    /\ reqs[s].status = 429
    /\ reqs[s].pc = "done"
    /\ reqs[s].token.kind = "jwt" /\ reqs[s].token.sig
    /\ reqs[s].token.hash = reqs[s].hash /\ reqs[s].token.indices = reqs[s].indices

(* C6: authenticateContentRequest never rejects: whatever the token, it    *)
(* calls next() exactly once and sends no response itself; when it issues  *)
(* no grant the cookies are those received and the final decision is the   *)
(* one the session cookie alone gets.                                      *)
C6_NeverRejects ==
  \A s \in Slots :
    LET q == reqs[s]
    IN  TokenEvaluated(q) =>
          /\ q.nextCalls = 1
          /\ q.pc = "done" => SessionChecked(q)
          /\ ~q.granted =>
               /\ q.cookies = q.received
               /\ q.pc = "done" =>
                    /\ q.status = 200 <=> CredentialValidAt(q.received.jwt, q.verifiedAt)
                    /\ q.status = 401 <=> ~CredentialValidAt(q.received.jwt, q.verifiedAt)

C6_Witness ==
  \E s \in Slots :
    LET q == reqs[s]
    IN  /\ TokenEvaluated(q)
        /\ q.token.kind = "jwt" /\ q.token.sig /\ q.evalAt >= q.token.exp
        /\ q.token.hash = q.hash /\ q.token.indices = q.indices
        /\ ~q.granted
        /\ q.received.jwt.kind = "jwt"
        /\ q.pc = "done" /\ q.status = 200 /\ q.user = "alice"

(* C7: a request admitted through a capability grant is never              *)
(* session-verified at or after payload.issuedAt plus the session          *)
(* time-to-live.                                                           *)
C7_GrantWithinOriginalLifetime ==
  \A s \in Slots :
    LET q == reqs[s]
    IN  (q.granted /\ SessionChecked(q) /\ q.user # Absent) =>
          q.verifiedAt < q.token.iat + EXPIRATION_SECONDS

C7_Witness ==
  \E s \in Slots :
    LET q == reqs[s]
    IN  /\ q.granted
        /\ q.user = "bob"
        /\ q.token.iat < StartSeconds
        /\ q.verifiedAt + 1 = q.token.iat + EXPIRATION_SECONDS

(* C8: whenever a grant is issued the installed credential is exactly      *)
(* sign(payload.username, payload.issuedAt); a granted request without a   *)
(* session cookie whose token is still unexpired at session verification   *)
(* is authenticated as the token's username, and a granted request is      *)
(* never authenticated as anyone else.                                     *)
C8_GrantedAsTokenUser ==
  \A s \in Slots :
    LET q == reqs[s]
    IN  q.granted =>
          /\ CredentialInstalled(q)
          /\ q.user \in {Absent, q.token.username}
          /\ (SessionChecked(q) /\ q.verifiedAt < q.token.exp) => q.user = q.token.username
          /\ (q.pc = "done" /\ q.verifiedAt < q.token.exp) => q.status = 200

C8_Witness ==
  \E s \in Slots :
    LET q == reqs[s]
    IN  /\ q.granted
        /\ q.received = NoCookies
        /\ q.pc = "done" /\ q.status = 200 /\ q.handled
        /\ q.user = "bob" /\ q.token.username = "bob"

(* C9: on a non-public route business logic is reached only through the    *)
(* session verification step, and that step authenticates the request if   *)
(* and only if the credential it carries then has a valid signature and    *)
(* the time is before the credential's expiry; an absent or failing        *)
(* credential ends the request with 401.                                   *)
C9_SessionAuthenticatedIffValid ==
  \A s \in Slots :
    LET q == reqs[s]
    IN  q.route # "auth" =>
          /\ ReachedBusinessLogic(q) => SessionChecked(q)
          /\ SessionChecked(q) =>
               /\ q.user # Absent <=> CredentialValidAt(q.cookies.jwt, q.verifiedAt)
               /\ q.user = Absent => (q.pc = "done" /\ q.status = 401 /\ ~q.handled)
               /\ q.user # Absent => q.status # 401

C9_Witness ==
  \E s \in Slots :
    LET q == reqs[s]
    IN  /\ q.route = "directory-list"
        /\ q.cookies.jwt.kind = "jwt" /\ q.cookies.jwt.sig
        /\ q.verifiedAt >= q.cookies.jwt.exp
        /\ q.cookies.jwt.iat + EXPIRATION_SECONDS + 1 = q.verifiedAt
        /\ q.pc = "done" /\ q.status = 401

(* C10: the directory-list handler answers a request whose path query is   *)
(* missing, empty or not a string with 404 and the file-not-found error,   *)
(* without sanitizing a path and without any filesystem call.              *)
C10_MissingPathNotFound ==
  \A s \in Slots :
    LET q == reqs[s]
    IN  (q.route = "directory-list" /\ q.handled /\ q.path.kind # "string") =>
          /\ q.status = 404
          /\ q.body = "FileNotFoundError"
          /\ q.fsOps = <<>>
          /\ ~q.sanitized

C10_Witness ==
  \E s \in Slots :
    /\ reqs[s].route = "directory-list"
    /\ reqs[s].path.kind = "empty"
    /\ reqs[s].handled
    /\ reqs[s].status = 404

ListedDirectory(q) == q.route = "directory-list" /\ q.handled /\ q.path.kind = "string"

UnderSomeRoot(p) ==
  \E root \in allowedPaths :
    \E rest \in 0 .. Len(p) :
      /\ Len(p) = Len(root) + rest
      /\ \A i \in 1 .. Len(root) : p[i] = root[i]

TraversalOutOfRoots == StringPath(FALSE, <<"..", "..", "etc">>)

(* C11: a directory-list request whose sanitized path lies outside every   *)
(* allow-list root is answered 403 with the access-denied error and makes  *)
(* no filesystem call; readdir, exists and stat only ever touch paths on   *)
(* or under an allow-list root.                                            *)
C11_DeniedBeforeFilesystem ==
  \A s \in Slots :
    LET q == reqs[s]
    IN  /\ (ListedDirectory(q) /\ ~UnderSomeRoot(q.resolved)) =>
             /\ q.status = 403
             /\ q.body = "AccessDeniedError"
             /\ q.fsOps = <<>>
        /\ \A i \in 1 .. Len(q.fsOps) :
             /\ UnderSomeRoot(q.fsOps[i].path)
             /\ UnderSomeRoot(q.resolved)

C11_Witness ==
  \E s \in Slots :
    /\ ListedDirectory(reqs[s])
    /\ reqs[s].path = StringPath(TRUE, <<"etc">>)
    /\ reqs[s].resolved = <<"etc">>
    /\ reqs[s].status = 403
    /\ reqs[s].fsOps = <<>>

(* C12: a resolved path is allowed exactly when it equals or lies under a  *)
(* configured allow-list root, and an input that climbs out of every root  *)
(* (../../etc) resolves to a path that is not allowed.                     *)
C12_AllowedIffUnderRoot ==
  \A s \in Slots :
    LET q == reqs[s]
    IN  ListedDirectory(q) =>
          /\ q.status # 403 <=> UnderSomeRoot(q.resolved)
          /\ q.path = TraversalOutOfRoots => (q.resolved = <<"etc">> /\ q.status = 403)
          /\ (q.path.abs /\ \A i \in 1 .. Len(q.path.segs) : q.path.segs[i] \notin {".", ".."}) =>
               q.resolved = q.path.segs

C12_Witness ==
  \E s \in Slots :
    /\ ListedDirectory(reqs[s])
    /\ reqs[s].path = TraversalOutOfRoots
    /\ reqs[s].status = 403

(* C16: sanitize is idempotent, sanitizing a sanitized path gives the same *)
(* path, and for every input, whichever separators it is written with,     *)
(* the result is absolute, has no '.' or '..' segment and is written with  *)
(* the one separator of the platform; inputs that differ only in their     *)
(* separators have the same result.                                        *)
C16_SanitizeIdempotent ==
  \A s \in Slots :
    LET q == reqs[s]
        r == q.resolvedPath
    IN  (ListedDirectory(q) /\ q.sanitized) =>
          /\ r = sanitizePath(q.path)
          /\ sanitizePath(r) = r
          /\ r.kind = "string" /\ r.abs
          /\ \A i \in 1 .. Len(r.segs) : r.segs[i] \notin {".", ".."}
          /\ Len(r.seps) = Len(r.segs)
          /\ \A i \in 1 .. Len(r.seps) : r.seps[i] = sep
          /\ r = sanitizePath(StringPath(q.path.abs, q.path.segs))
          /\ q.resolved = r.segs

(* A relative path with '..' written with both separators. *)
C16_Witness ==
  \E s \in Slots :
    /\ ListedDirectory(reqs[s])
    /\ reqs[s].sanitized
    /\ reqs[s].path = WrittenPath(FALSE, <<"..", "downloads", "data">>, MixedSeparators)
    /\ reqs[s].resolvedPath = StringPath(TRUE, <<"data", "downloads", "data">>)
    /\ reqs[s].status = 200

(* Two requests counted by the same limiter instance for the same key in   *)
(* the same window of that counter.                                        *)
SameCounterWindow(p, q) ==
  /\ Counted(p) /\ Counted(q)
  /\ LimiterOf(p.route) = LimiterOf(q.route) /\ p.key = q.key /\ p.windowEnd = q.windowEnd

LetThrough(q) == LimiterRan(q) /\ q.status # 429

(* C13 as stated: under every interleaving at most 100 of the              *)
(* content-route requests of one client key within one window pass the     *)
(* limiter: a request that passes is, the requests of its key counted in   *)
(* the window on both content routes taken together, at most the 100th.    *)
C13_CounterAtomic ==
  \A s \in Slots : LetThrough(reqs[s]) => reqs[s].windowHits <= max

(* C13, amended: the requests of one client key to one content route are   *)
(* counted one by one under every interleaving of the increments and       *)
(* decisions of the requests in flight: within a window of that route's    *)
(* counter no two requests are given the same count, a request is decided  *)
(* on the count it was given, passing if and only if that count is at most *)
(* 100, and so at most 100 of them pass.                                   *)
C13_CounterAtomicPerRoute ==
  /\ \A s, t \in Slots :
       (s # t /\ SameCounterWindow(reqs[s], reqs[t])) => reqs[s].hit # reqs[t].hit
  /\ \A s \in Slots :
       LET q == reqs[s]
       IN  /\ Counted(q) =>
                 (resetTime[LimiterOf(q.route)][q.key] = q.windowEnd =>
                    q.hit <= hits[LimiterOf(q.route)][q.key])
           /\ LimiterRan(q) =>
                 /\ LetThrough(q) <=> q.hit <= max
                 /\ Cardinality({t \in Slots : SameCounterWindow(q, reqs[t]) /\ LetThrough(reqs[t])
                                                /\ reqs[t].hit >= q.hit})
                      <= IF q.hit <= max THEN max + 1 - q.hit ELSE 0

(* Two requests of one key and route wait for their decisions together,    *)
(* counted 100 and 101; the later one is decided first.                    *)
C13_Witness ==
  \E s, t \in Slots :
    /\ s # t
    /\ SameCounterWindow(reqs[s], reqs[t])
    /\ reqs[s].hit = max /\ reqs[s].pc = "rateLimitDecision"
    /\ reqs[t].hit = max + 1 /\ reqs[t].status = 429

(* C14: a request is counted against its own client key and route only,    *)
(* leaving every other counter as it was; inside the window the count      *)
(* goes up by one, and once the window has elapsed the count restarts at   *)
(* one and the request is admitted to authentication.                      *)
C14_PerKeyPerWindow ==
  [][\A s \in Slots :
       /\ (reqs[s].pc = "rateLimit" /\ reqs'[s].pc # "rateLimit") =>
            LET l == reqs[s].route
                k == reqs[s].key
            IN  /\ \A l2 \in Limiters, k2 \in Keys :
                     (l2 # l \/ k2 # k) =>
                       (hits'[l2][k2] = hits[l2][k2] /\ resetTime'[l2][k2] = resetTime[l2][k2])
                /\ now >= resetTime[l][k] =>
                     /\ hits'[l][k] = 1
                     /\ resetTime'[l][k] = now + windowMs
                     /\ reqs'[s].hit = 1
                /\ now < resetTime[l][k] =>
                     /\ hits'[l][k] = hits[l][k] + 1
                     /\ resetTime'[l][k] = resetTime[l][k]
                     /\ reqs'[s].hit = hits[l][k] + 1
       /\ (reqs[s].pc = "rateLimitDecision" /\ reqs'[s].pc # "rateLimitDecision") =>
            /\ hits' = hits /\ resetTime' = resetTime
            /\ reqs[s].hit = 1 => reqs'[s].pc = "authenticateContentRequest"]_vars

C14_Witness ==
  \E s, t \in Slots :
    /\ s # t
    /\ reqs[s].route = reqs[t].route /\ reqs[s].key = reqs[t].key
    /\ reqs[s].status = 429
    /\ reqs[t].hit = 1 /\ reqs[t].pc = "authenticateContentRequest"
    /\ reqs[t].countedAt >= reqs[s].windowEnd
    /\ \E k \in Keys : k # reqs[s].key /\ hits[reqs[s].route][k] = 0

----------------------------------------------------------------------------
(* The payload of a request's token lacks or mistypes one of its fields. *)
PayloadDefective(t) ==
  \/ ~IsString(t.username)
  \/ ~IsString(t.hash)
  \/ ~IsString(t.indices)
  \/ ~IsNumber(t.iat)

(* C19: a correctly signed, unexpired token whose payload lacks or         *)
(* mistypes username, hash, indices or the issued-at time yields no grant, *)
(* whatever the route asks for, and the cookies stay as received.          *)
C19_DefectivePayloadNoGrant ==
  \A s \in Slots :
    LET q == reqs[s]
    IN  (/\ TokenEvaluated(q)
         /\ CredentialValidAt(q.token, q.evalAt)
         /\ PayloadDefective(q.token)) =>
          (~q.granted /\ q.cookies = q.received)

C19_Witness ==
  \E s \in Slots :
    LET q == reqs[s]
    IN  /\ TokenEvaluated(q)
        /\ CredentialValidAt(q.token, q.evalAt)
        /\ IsString(q.token.username)
        /\ q.token.hash = q.hash /\ q.token.indices = q.indices
        /\ q.token.iat = IatAbsent
        /\ ~q.granted
        /\ q.received = NoCookies
        /\ q.pc = "done" /\ q.status = 401

(* C18: a grant replaces the whole cookie set by the one synthesized       *)
(* credential, so a request that also carried a session cookie of another  *)
(* user is session-verified as the token's user or rejected, never as the  *)
(* cookie's user; without a grant the cookies are exactly those received.  *)
C18_GrantReplacesCookieSet ==
  \A s \in Slots :
    LET q == reqs[s]
    IN  TokenEvaluated(q) =>
          /\ q.granted =>
               /\ CredentialInstalled(q)
               /\ q.cookies.others = {}
               /\ SessionChecked(q) =>
                    /\ q.user \in {Absent, q.token.username}
                    /\ q.user = Absent => q.status = 401
                    /\ q.received.jwt.kind = "jwt" => q.user # q.received.jwt.username
          /\ ~q.granted => q.cookies = q.received

C18_Witness ==
  \E s \in Slots :
    LET q == reqs[s]
    IN  /\ TokenEvaluated(q)
        /\ q.granted
        /\ CredentialValidAt(q.received.jwt, q.evalAt)
        /\ q.received.jwt.username = "alice"
        /\ q.received.others = OtherCookies
        /\ q.cookies.others = {}
        /\ q.user = "bob"
        /\ q.pc = "done" /\ q.status = 200

(* The request is a GET, or a HEAD served as one, to one of the two        *)
(* content routes.                                                         *)
OnContentRoute(q) == ServedByGet(q.method) /\ q.url \in ContentRoutes

TokenLeftAlone(q) ==
  /\ ~q.tokenVerified
  /\ q.evalAt < 0
  /\ ~q.granted
  /\ q.cookies = q.received
  /\ q.hit = 0

(* C17, as stated: off the GET content routes the token is never verified  *)
(* or turned into a credential, and a request without a session cookie is  *)
(* answered 401 on every route and method.                                 *)
C17_TokenOnlyOnContentRoutes ==
  \A s \in Slots :
    LET q == reqs[s]
    IN  (q.pc # "idle" /\ ~(q.method = "GET" /\ q.url \in ContentRoutes)) =>
          /\ TokenLeftAlone(q)
          /\ (q.received.jwt.kind = "absent" /\ q.pc = "done") => q.status = 401

(* C17, amended: off the content routes' GET handlers, which serve GET and *)
(* HEAD, the token is never verified or turned into a credential; on every *)
(* path but the public /auth mount, which precedes the session check, a    *)
(* request without a session cookie reaches no handler and is answered     *)
(* 401.                                                                    *)
C17_TokenOnlyOnContentRoutesBehindSessionCheck ==
  \A s \in Slots :
    LET q == reqs[s]
    IN  (q.pc # "idle" /\ ~OnContentRoute(q)) =>
          /\ TokenLeftAlone(q)
          /\ (q.url # "auth" /\ q.received.jwt.kind = "absent") =>
               /\ ~ReachedBusinessLogic(q)
               /\ q.pc = "done" => q.status = 401

C17_Witness ==
  \E s \in Slots :
    LET q == reqs[s]
    IN  /\ q.method = "POST" /\ q.url \in ContentRoutes
        /\ CredentialValidAt(q.token, NowSeconds)
        /\ q.token.hash = q.hash /\ q.token.indices = q.indices
        /\ q.received = NoCookies
        /\ TokenLeftAlone(q)
        /\ q.pc = "done" /\ q.status = 401

(* C15: every JSON error body of the router has exactly a code and a       *)
(* message.                                                                *)
C15_ErrorBodiesCodeAndMessage ==
  \A s \in Slots :
    LET q == reqs[s]
    IN  (q.pc = "done" /\ q.json /\ q.status >= 400) => q.keys = {"code", "message"}

(* C20: a session-verified request to a business route whose handler has   *)
(* returned, and whose collaborator is not pending, has been answered: 200 *)
(* when the collaborator gave a value, an error status when it gave an     *)
(* error.                                                                  *)
C20_EveryRequestAnswered ==
  \A s \in Slots :
    LET q == reqs[s]
    IN  (q.route \in BusinessRoutes /\ q.user # Absent /\ q.handled /\ q.pc # "awaiting") =>
          /\ q.pc = "done"
          /\ q.status # 0
          /\ q.outcome = "value" => q.status = 200
          /\ q.outcome = "error" => q.status >= 400

====
